---- MODULE Spec2Model ----
(***************************************************************************)
(* SimpleBacktester (src/analysis/backtesting.py) run over a bar sequence, *)
(* with the moving averages and the crossover signal of                    *)
(* src/analysis/indicators.py.                                             *)
(*                                                                         *)
(* Specifications.  Spec: one call of a strategy on a new instance.        *)
(* VolumeSpec: one call of the volume strategy, bars of constant volume    *)
(* included.  RerunSpec: two calls on one instance.  ConcSpec: two         *)
(* instances, one call each, interleaved.  PerfSpec:                       *)
(* _calculate_performance on a given equity column.  RsiSpec:              *)
(* calculate_rsi on a bar sequence.                                        *)
(*                                                                         *)
(* Numbers.  Prices, volumes and capital are integers here.  The code      *)
(* works in float64; on integers of this size every sum and product is     *)
(* exact, int(capital / price) is the integer quotient, and a comparison   *)
(* of two quotients (MA5 > MA20, Volume > Volume_MA * 1.2,                 *)
(* price < entry_price * 0.9) has the truth value of the cross-multiplied  *)
(* integer comparison, which is what the operators below compute.          *)
(*                                                                         *)
(* Bars are numbered 1..Len(data); bar t is row t-1 of the DataFrame.  A   *)
(* trade's 'date' (row.name, the bar's timestamp) is the bar's number:     *)
(* timestamps are strictly ascending, so the two orders agree.             *)
(*                                                                         *)
(* A value that may be NaN or None is <<>> when it is and <<v>> otherwise. *)
(***************************************************************************)
EXTENDS Integers, Sequences, FiniteSets, TLC

VARIABLES
    strategy,         \* which function is called: "golden", "volume" or "rsi"
    data,             \* the DataFrame passed in: sequence of [Close, Volume]
    short_window,     \* arguments of golden_cross_strategy (5, 20 in the
    long_window,      \*   volume strategy, line 126)
    initial_capital,  \* self.initial_capital
    capital,          \* self.capital
    position,         \* self.position
    trades,           \* self.trades
    entry_price,      \* local entry_price of ma_crossover_with_volume_strategy
    portfolio_value,  \* local list portfolio_value
    i,                \* number of loop iterations completed
    pc,               \* "call", "loop", "perf", "done", "raised"
    report,           \* the returned dict (<<>> until the call returns)
    error,            \* the exception that left the call ("" if none)
    earlier,          \* the outcome of the previous call on this instance, as
                      \*   its caller sees it now (<<>> if there was none)
    shared,           \* the list in the earlier report's 'trades' is the
                      \*   list self.trades refers to
    other,            \* a second SimpleBacktester whose thread is waiting:
                      \*   its attributes, arguments and locals (<<>> if none)
    running           \* the instance (1 or 2) the variables above belong to

vars == <<strategy, data, short_window, long_window, initial_capital, capital,
          position, trades, entry_price, portfolio_value, i, pc, report, error,
          earlier, shared, other, running>>

inputs == <<strategy, data, short_window, long_window, initial_capital>>

----------------------------------------------------------------------------
(* Bounds of the input family and program constants. *)

\* rows and largest value of a Portfolio_Value column given directly to
\* _calculate_performance
MaxCurveLen == 4
MaxEquity == 4
\* bars of the leading stretch that follows the trend line exactly
HeadLen == 17
\* bars after it, each one above or below the trend line
MaxTail == 5

RSI_PERIOD == 14
MA_SHORT == 5
MA_LONG == 20
VolumeWindow == 20
\* Volume > Volume_MA * 1.2
VolFactorNum == 12
VolFactorDen == 10
\* current_price < entry_price * 0.9
StopNum == 9
StopDen == 10

Capitals == {2, 100}
\* trend lines <<close of bar 1, slope>>: closes 1 and 3 around a flat 2;
\* closes 18 and 20 around a flat 19 (18 is exactly 0.9 * 20); rising closes
Trends == {<<2, 0>>, <<19, 0>>, <<2, 2>>}
Noise == {-1, 1}
\* volumes of the tail bars; the leading bars have volume 5 (6 is exactly
\* 1.2 * 5)
Vols == {1, 6}
Windows == {<<MA_SHORT, MA_LONG>>, <<2, 3>>}

NaN == <<>>
None == <<>>
Some(v) == <<v>>

TrendClose(trend, t) == trend[1] + trend[2] * (t - 1)

\* The bar sequence: k bars on the trend line with volume 5, then the tail.
MkData(trend, k, tail) ==
    [t \in 1..(k + Len(tail)) |->
        IF t <= k
        THEN [Close |-> TrendClose(trend, t), Volume |-> 5]
        ELSE [Close |-> TrendClose(trend, t) + tail[t - k][1],
              Volume |-> tail[t - k][2]]]

\* golden_cross_strategy never reads Volume: its inputs keep Volume at 5.
TailVols(strat) == IF strat = "volume" THEN Vols ELSE {5}

----------------------------------------------------------------------------
(* Indicators: pandas rolling means and the crossover signal. *)

RECURSIVE ColSum(_, _, _, _)
\* sum of column col over bars lo..hi
ColSum(d, col, lo, hi) ==
    IF lo > hi THEN 0
    ELSE (IF col = "Close" THEN d[hi].Close ELSE d[hi].Volume)
         + ColSum(d, col, lo, hi - 1)

\* rolling(window=w) has a value at bar t iff w bars are available
RollingDefined(t, w) == t >= w

\* rolling(window=w).sum() at bar t (the mean is this over w)
RollingSum(d, col, t, w) == ColSum(d, col, t - w + 1, t)

\* df[MA s] > df[MA l] at bar t; a comparison with NaN is False
MAGreater(d, t, s, l) ==
    /\ RollingDefined(t, s)
    /\ RollingDefined(t, l)
    /\ RollingSum(d, "Close", t, s) * l > RollingSum(d, "Close", t, l) * s

\* df['Signal'] = np.where(MA_short > MA_long, 1, 0)
Signal(d, t, s, l) == IF MAGreater(d, t, s, l) THEN 1 ELSE 0

\* df['Signal_Change'] = df['Signal'].diff(): NaN on the first bar
Signal_Change(d, t, s, l) ==
    IF t = 1 THEN NaN ELSE Some(Signal(d, t, s, l) - Signal(d, t - 1, s, l))

\* detect_golden_cross(data, s, l): df[df['Signal_Change'] == 1].index, the
\* bars of the returned list (the moving averages are those of
\* calculate_moving_averages for the same windows)
DetectGoldenCross(d, s, l) ==
    {t \in 1..Len(d) : Signal_Change(d, t, s, l) = Some(1)}

\* detect_death_cross(data, s, l): df[df['Signal_Change'] == -1].index
DetectDeathCross(d, s, l) ==
    {t \in 1..Len(d) : Signal_Change(d, t, s, l) = Some(-1)}

VolumeConfirmed_AtLeastAverage(d, t) ==
    /\ RollingDefined(t, VolumeWindow)
    /\ d[t].Volume * VolumeWindow >= RollingSum(d, "Volume", t, VolumeWindow)

\* row['Volume'] > row['Volume_MA'] * 1.2 (False while Volume_MA is NaN)
VolumeConfirmed(d, t) ==
    /\ RollingDefined(t, VolumeWindow)
    /\ d[t].Volume * VolumeWindow * VolFactorDen
         > RollingSum(d, "Volume", t, VolumeWindow) * VolFactorNum

\* entry_price and current_price < entry_price * 0.9
StopLossHit(entry, price) ==
    /\ entry # None
    /\ entry[1] # 0
    /\ price * StopDen < entry[1] * StopNum

SharesToBuy_RoundUp(cap, price) == (cap + price - 1) \div price

\* int(self.capital / current_price)
SharesToBuy(cap, price) == cap \div price

----------------------------------------------------------------------------
(* Trade records. *)

BuyTrade(t, price, shares) ==
    [date |-> t, action |-> "BUY", price |-> price, shares |-> shares,
     cost |-> shares * price]

SellTrade_PreviousBar(t, price, shares) ==
    [date |-> t - 1, action |-> "SELL", price |-> price, shares |-> shares,
     proceeds |-> shares * price]

SellTrade(t, price, shares) ==
    [date |-> t, action |-> "SELL", price |-> price, shares |-> shares,
     proceeds |-> shares * price]

SellTradeReason(t, price, shares, reason) ==
    [date |-> t, action |-> "SELL", price |-> price, shares |-> shares,
     proceeds |-> shares * price, reason |-> reason]

----------------------------------------------------------------------------
(* The conditions and the arithmetic of one bar. *)

\* if row['Signal_Change'] == 1 and self.position == 0
GoldenBuySignal(d, t, s, l, pos) ==
    Signal_Change(d, t, s, l) = Some(1) /\ pos = 0

GoldenSellSignal_Lagged(d, t, s, l, pos) ==
    t > 1 /\ Signal_Change(d, t - 1, s, l) = Some(-1) /\ pos > 0

\* elif row['Signal_Change'] == -1 and self.position > 0
GoldenSellSignal(d, t, s, l, pos) ==
    Signal_Change(d, t, s, l) = Some(-1) /\ pos > 0

VolumeBuySignal_NoVolume(d, t, pos) ==
    Signal_Change(d, t, MA_SHORT, MA_LONG) = Some(1) /\ pos = 0

\* if (row['Signal_Change'] == 1 and row['Volume'] > row['Volume_MA'] * 1.2
\*     and self.position == 0)
VolumeBuySignal(d, t, pos) ==
    /\ Signal_Change(d, t, MA_SHORT, MA_LONG) = Some(1)
    /\ VolumeConfirmed(d, t)
    /\ pos = 0

SellReason_StopFirst(d, t, entry, price) ==
    IF StopLossHit(entry, price) THEN "Stop Loss"
    ELSE IF Signal_Change(d, t, MA_SHORT, MA_LONG) = Some(-1) THEN "Death Cross"
    ELSE ""

\* should_sell / sell_reason: the death cross is tested first, then the stop
\* loss; "" stands for should_sell = False
SellReason(d, t, entry, price) ==
    IF Signal_Change(d, t, MA_SHORT, MA_LONG) = Some(-1) THEN "Death Cross"
    ELSE IF StopLossHit(entry, price) THEN "Stop Loss"
    ELSE ""

CashAfterBuy_OneShare(cap, shares, price) == cap - price

\* cost = shares_to_buy * current_price; self.capital -= cost
CashAfterBuy(cap, shares, price) == cap - shares * price

CashAfterSell_Commission(cap, pos, price) == cap + pos * price - 1

\* proceeds = self.position * current_price; self.capital += proceeds
CashAfterSell(cap, pos, price) == cap + pos * price

EntryPriceAfter_KeptOnSell(fill, sell, price, entry) ==
    IF fill THEN Some(price) ELSE entry

\* entry_price = current_price on a BUY fill (line 153), entry_price = None
\* on a SELL fill (line 192), untouched otherwise
EntryPriceAfter(fill, sell, price, entry) ==
    IF fill THEN Some(price) ELSE IF sell THEN None ELSE entry

PortfolioValue_CashOnly(cap, pos, price) == cap

\* current_portfolio_value = self.capital + (self.position * current_price)
PortfolioValue(cap, pos, price) == cap + pos * price

----------------------------------------------------------------------------
(* The state after SimpleBacktester(initial_capital), with the call's      *)
(* arguments chosen.                                                       *)

Init ==
    /\ strategy \in {"golden", "volume"}
    /\ initial_capital \in Capitals
    /\ \E w \in Windows :
          /\ strategy = "volume" => w = <<MA_SHORT, MA_LONG>>
          /\ short_window = w[1]
          /\ long_window = w[2]
    /\ \E trend \in Trends, k \in {0, HeadLen}, n \in 0..MaxTail :
          \E tail \in [1..n -> Noise \X TailVols(strategy)] :
              data = MkData(trend, k, tail)
    /\ capital = initial_capital
    /\ position = 0
    /\ trades = <<>>
    /\ entry_price = None
    /\ portfolio_value = <<>>
    /\ i = 0
    /\ pc = "call"
    /\ report = None
    /\ error = ""
    /\ earlier = None
    /\ shared = FALSE
    /\ other = None
    /\ running = 1

\* The earlier report after self.trades has become log: its 'trades' is the
\* same list when shared.
Seen(e, sh, log) ==
    IF sh /\ e # None
    THEN Some([e[1] EXCEPT !.report = Some([@[1] EXCEPT !.trades = log])])
    ELSE e

ResetLog_Clear(sh) == [trades |-> <<>>, shared |-> sh]

\* self.trades = []: a new list, which no report refers to
ResetLog(sh) == [trades |-> <<>>, shared |-> FALSE]

SameSelf_Global(a, b) == TRUE

\* capital, position and trades are attributes of self, set in __init__ and
\* in _reset: two instances hold the same ones iff they are one instance
SameSelf(a, b) == a = b

OtherId(k) == IF k = 1 THEN 2 ELSE 1

\* The waiting instance after instance me has assigned cap, pos and log to
\* its attributes.
OtherSees(o, me, cap, pos, log) ==
    IF o # None /\ SameSelf(me, OtherId(me))
    THEN Some([o[1] EXCEPT !.capital = cap, !.position = pos, !.trades = log])
    ELSE o

\* Entry of either strategy up to the loop: the indicator columns are pure
\* functions of data (above); _reset() restores the portfolio.
Call ==
    /\ pc = "call"
    /\ capital' = initial_capital
    /\ position' = 0
    /\ trades' = ResetLog(shared).trades
    /\ shared' = ResetLog(shared).shared
    /\ earlier' = Seen(earlier, shared', trades')
    /\ portfolio_value' = <<>>
    /\ entry_price' = None
    /\ i' = 0
    /\ pc' = "loop"
    /\ other' = OtherSees(other, running, capital', position', trades')
    /\ UNCHANGED <<inputs, report, error, running>>

\* One iteration of the loop of golden_cross_strategy, on bar i+1.  (The
\* singleton sets only name the values of the conditions.)
GoldenBar ==
    /\ pc = "loop"
    /\ strategy = "golden"
    /\ i < Len(data)
    /\ \E buy \in {GoldenBuySignal(data, i + 1, short_window, long_window, position)},
          death \in {GoldenSellSignal(data, i + 1, short_window, long_window, position)} :
        LET t == i + 1
            current_price == data[t].Close
            shares_to_buy == SharesToBuy(capital, current_price)
            fill == buy /\ shares_to_buy > 0
            sell == ~buy /\ death
            cap2 == IF fill THEN CashAfterBuy(capital, shares_to_buy, current_price)
                    ELSE IF sell THEN CashAfterSell(capital, position, current_price)
                    ELSE capital
            pos2 == IF fill THEN shares_to_buy ELSE IF sell THEN 0 ELSE position
        IN  /\ capital' = cap2
            /\ position' = pos2
            /\ trades' =
                 IF fill THEN Append(trades, BuyTrade(t, current_price, shares_to_buy))
                 ELSE IF sell THEN Append(trades, SellTrade(t, current_price, position))
                 ELSE trades
            /\ portfolio_value' =
                 Append(portfolio_value, PortfolioValue(cap2, pos2, current_price))
            /\ i' = t
    /\ earlier' = Seen(earlier, shared, trades')
    /\ other' = OtherSees(other, running, capital', position', trades')
    /\ UNCHANGED <<inputs, entry_price, pc, report, error, shared, running>>

\* After the loop of golden_cross_strategy: the final sell if still holding.
GoldenFinalSell ==
    /\ pc = "loop"
    /\ strategy = "golden"
    /\ i = Len(data)
    /\ IF position > 0
       THEN LET final_price == data[Len(data)].Close
            IN  /\ capital' = CashAfterSell(capital, position, final_price)
                /\ trades' = Append(trades, SellTrade(Len(data), final_price, position))
                /\ position' = 0
       ELSE UNCHANGED <<capital, trades, position>>
    /\ pc' = "perf"
    /\ earlier' = Seen(earlier, shared, trades')
    /\ other' = OtherSees(other, running, capital', position', trades')
    /\ UNCHANGED <<inputs, entry_price, portfolio_value, i, report, error,
                   shared, running>>

\* One iteration of the loop of ma_crossover_with_volume_strategy, on bar i+1.
VolumeBar ==
    /\ pc = "loop"
    /\ strategy = "volume"
    /\ i < Len(data)
    /\ \E buy \in {VolumeBuySignal(data, i + 1, position)},
          sell_reason \in {SellReason(data, i + 1, entry_price, data[i + 1].Close)} :
        LET t == i + 1
            current_price == data[t].Close
            shares_to_buy == SharesToBuy(capital, current_price)
            fill == buy /\ shares_to_buy > 0
            sell == ~buy /\ position > 0 /\ sell_reason # ""
            cap2 == IF fill THEN CashAfterBuy(capital, shares_to_buy, current_price)
                    ELSE IF sell THEN CashAfterSell(capital, position, current_price)
                    ELSE capital
            pos2 == IF fill THEN shares_to_buy ELSE IF sell THEN 0 ELSE position
        IN  /\ capital' = cap2
            /\ position' = pos2
            /\ entry_price' =
                 EntryPriceAfter(fill, sell, current_price, entry_price)
            /\ trades' =
                 IF fill THEN Append(trades, BuyTrade(t, current_price, shares_to_buy))
                 ELSE IF sell
                      THEN Append(trades, SellTradeReason(t, current_price, position,
                                                          sell_reason))
                 ELSE trades
            /\ portfolio_value' =
                 Append(portfolio_value, PortfolioValue(cap2, pos2, current_price))
            /\ i' = t
    /\ earlier' = Seen(earlier, shared, trades')
    /\ other' = OtherSees(other, running, capital', position', trades')
    /\ UNCHANGED <<inputs, pc, report, error, shared, running>>

\* After the loop of ma_crossover_with_volume_strategy: nothing is sold.
VolumeLoopExit ==
    /\ pc = "loop"
    /\ strategy = "volume"
    /\ i = Len(data)
    /\ pc' = "perf"
    /\ UNCHANGED <<inputs, capital, position, trades, entry_price,
                   portfolio_value, i, report, error, earlier, shared,
                   other, running>>

\* self.trades.index(trade): the first position holding an equal record
IndexOf(log, trade) ==
    CHOOSE j \in 1..Len(log) :
        /\ log[j] = trade
        /\ \A m \in 1..(j - 1) : log[m] # trade

WinningTrades_Geq(log) ==
    Cardinality({j \in 1..Len(log) :
        /\ j % 2 = 0
        /\ Len(log) > 1
        /\ log[j].proceeds >= log[IndexOf(log, log[j]) - 1].cost})

\* sum(1 for trade in self.trades[1::2] if len(self.trades) > 1 and
\*     trade['proceeds'] > self.trades[self.trades.index(trade)-1]['cost'])
WinningTrades(log) ==
    Cardinality({j \in 1..Len(log) :
        /\ j % 2 = 0
        /\ Len(log) > 1
        /\ log[j].proceeds > log[IndexOf(log, log[j]) - 1].cost})

\* The frame holds the columns MA<short_window> and MA<long_window>;
\* _calculate_performance selects ['Close', 'Portfolio_Value', 'MA5', 'MA20'].
HasColumnsMA5MA20(s, l) == {MA_SHORT, MA_LONG} \subseteq {s, l}

EmptyDict == <<>>

Returned(r) == [pc |-> "done", error |-> "", report |-> Some(r)]
Raised(e) == [pc |-> "raised", error |-> e, report |-> None]

\* A float that is a quotient of integers is kept as the pair <<n, d>>, d > 0,
\* standing for n / d.
\* (x - base) / base * 100
Pct(x, base) == <<100 * (x - base), base>>

\* total_return - buy_hold_return
RatSub(a, b) == <<a[1] * b[2] - b[1] * a[2], a[2] * b[2]>>

\* df['Portfolio_Value'].pct_change().dropna(): the returns are
\* pv[t+1]/pv[t] - 1 for t in 1..Len(pv)-1 (the first row is NaN and is
\* dropped).  Two returns are equal iff pv[t+1]*pv[u] = pv[u+1]*pv[t].
ReturnsAllEqual(pv) ==
    \A t, u \in 1..(Len(pv) - 1) : pv[t + 1] * pv[u] = pv[u + 1] * pv[t]

\* daily_returns.std() * np.sqrt(252) * 100.  Series.std() is the sample
\* standard deviation (ddof = 1): NaN for fewer than two returns.  The
\* value is kept by its sign only: Some(0) for 0.0, Some(1) for a positive
\* number.
Volatility(pv) ==
    IF Len(pv) - 1 < 2 THEN NaN
    ELSE IF ReturnsAllEqual(pv) THEN Some(0) ELSE Some(1)

\* sharpe_ratio = 0; if volatility > 0: (total_return/100 - 0.01) /
\* (volatility/100).  NaN > 0 is False.  Kept by its sign: the sign of
\* (final - init)/init - 1/100 when volatility is positive.
SharpeRatio(init, final, vol) ==
    IF vol = Some(1)
    THEN (IF 100 * (final - init) > init THEN 1
          ELSE IF 100 * (final - init) < init THEN -1 ELSE 0)
    ELSE 0

Max(S) == CHOOSE x \in S : \A y \in S : y <= x

RunningMax_Global(pv, t) == Max({pv[u] : u \in 1..Len(pv)})

\* df['Portfolio_Value'].expanding().max(), row t
RunningMax(pv, t) == Max({pv[u] : u \in 1..t})

\* drawdown.min(): a quotient of the column that no other is below
\* (quotients <<n, d>> compared by cross-multiplication)
MinQuotient(col) ==
    col[CHOOSE t \in DOMAIN col :
            \A u \in DOMAIN col : col[t][1] * col[u][2] <= col[u][1] * col[t][2]]

\* drawdown = (Portfolio_Value - running_max) / running_max, as a column
Drawdown(pv) ==
    [t \in 1..Len(pv) |-> <<pv[t] - RunningMax(pv, t), RunningMax(pv, t)>>]

\* max_drawdown = drawdown.min() * 100.  (The singleton sets only name the
\* column and its minimum.)
MaxDrawdown(pv) ==
    CHOOSE r \in {<<100 * q[1], q[2]>> :
                     q \in {MinQuotient(col) : col \in {Drawdown(pv)}}} : TRUE

\* (winning_trades / total_trades * 100) if total_trades > 0 else 0
WinRate(winning_trades, total_trades) ==
    IF total_trades > 0 THEN <<100 * winning_trades, total_trades>> ELSE <<0, 1>>

\* The dict built at the end of _calculate_performance.
PerformanceDict(d, init, log, pv) ==
    LET final_value == pv[Len(pv)]
        total_return == Pct(final_value, init)
        buy_hold_return == Pct(d[Len(d)].Close, d[1].Close)
        volatility == Volatility(pv)
    IN  [initial_capital |-> init,
         final_value |-> final_value,
         total_return |-> total_return,
         buy_hold_return |-> buy_hold_return,
         excess_return |-> RatSub(total_return, buy_hold_return),
         volatility |-> volatility,
         sharpe_ratio |-> SharpeRatio(init, final_value, volatility),
         max_drawdown |-> MaxDrawdown(pv),
         total_trades |-> Len(log) \div 2,
         win_rate |-> WinRate(WinningTrades(log), Len(log) \div 2),
         trades |-> log,
         portfolio_data |-> pv]

Performance_NoEmptyCheck(d, s, l, init, log, pv) ==
    IF Len(d) = 0 THEN Raised("IndexError")
    ELSE IF ~HasColumnsMA5MA20(s, l) THEN Raised("KeyError")
    ELSE Returned(PerformanceDict(d, init, log, pv))

\* _calculate_performance(df): {} for an empty frame; KeyError when the
\* frame lacks MA5 or MA20; the report otherwise.
Performance(d, s, l, init, log, pv) ==
    IF Len(d) = 0 THEN Returned(EmptyDict)
    ELSE IF ~HasColumnsMA5MA20(s, l) THEN Raised("KeyError")
    ELSE Returned(PerformanceDict(d, init, log, pv))

\* df['Portfolio_Value'] = portfolio_value; return self._calculate_performance(df)
CalculatePerformance ==
    /\ pc = "perf"
    /\ \E out \in {Performance(data, short_window, long_window, initial_capital,
                               trades, portfolio_value)} :
           /\ pc' = out.pc
           /\ error' = out.error
           /\ report' = out.report
    /\ UNCHANGED <<inputs, capital, position, trades, entry_price,
                   portfolio_value, i, earlier, shared,
                   other, running>>

Next ==
    \/ Call
    \/ GoldenBar
    \/ GoldenFinalSell
    \/ VolumeBar
    \/ VolumeLoopExit
    \/ CalculatePerformance

Spec == Init /\ [][Next]_vars

----------------------------------------------------------------------------
(* Two calls on one SimpleBacktester: after the first call has ended the    *)
(* caller keeps its report and calls a strategy again on the same data.     *)
(* The bars: HeadLen bars of close 2 and volume 5, then up to MaxTail bars  *)
(* of close 1 or 3, the first two of volume 1 and the later ones of         *)
(* volume 6.                                                                *)

RerunTails(n) ==
    {tail \in [1..n -> Noise \X Vols] :
        \A j \in 1..n : tail[j][2] = (IF j <= 2 THEN 1 ELSE 6)}

InitRerun ==
    /\ strategy \in {"golden", "volume"}
    /\ initial_capital \in Capitals
    /\ \E w \in Windows :
          /\ strategy = "volume" => w = <<MA_SHORT, MA_LONG>>
          /\ short_window = w[1]
          /\ long_window = w[2]
    /\ \E n \in 0..MaxTail : \E tail \in RerunTails(n) :
          data = MkData(<<2, 0>>, HeadLen, tail)
    /\ capital = initial_capital
    /\ position = 0
    /\ trades = <<>>
    /\ entry_price = None
    /\ portfolio_value = <<>>
    /\ i = 0
    /\ pc = "call"
    /\ report = None
    /\ error = ""
    /\ earlier = None
    /\ shared = FALSE
    /\ other = None
    /\ running = 1

\* The first call has ended; the caller keeps what it returned and calls a
\* strategy on the same instance.  A returned report's 'trades' is the list
\* self.trades itself (line 263); the instance's attributes are as the
\* first call left them.
Rerun ==
    /\ pc \in {"done", "raised"}
    /\ earlier = None
    /\ earlier' = Some([strategy |-> strategy, short_window |-> short_window,
                        long_window |-> long_window, pc |-> pc,
                        report |-> report])
    /\ shared' = (pc = "done" /\ report # Some(EmptyDict))
    /\ strategy' \in {"golden", "volume"}
    /\ \E w \in Windows :
          /\ strategy' = "volume" => w = <<MA_SHORT, MA_LONG>>
          /\ short_window' = w[1]
          /\ long_window' = w[2]
    /\ pc' = "call"
    /\ report' = None
    /\ error' = ""
    /\ UNCHANGED <<data, initial_capital, capital, position, trades,
                   entry_price, portfolio_value, i, other, running>>

NextRerun == Next \/ Rerun

RerunSpec == InitRerun /\ [][NextRerun]_vars

----------------------------------------------------------------------------
(* One call of ma_crossover_with_volume_strategy on a new instance, over    *)
(* the bar sequences of the volume strategy above and over those whose      *)
(* volume is 5 on every bar.                                                *)

InitVolume ==
    /\ strategy = "volume"
    /\ initial_capital \in Capitals
    /\ short_window = MA_SHORT
    /\ long_window = MA_LONG
    /\ \E trend \in Trends, k \in {0, HeadLen}, n \in 0..MaxTail :
          \E tail \in [1..n -> Noise \X Vols] \cup [1..n -> Noise \X {5}] :
              data = MkData(trend, k, tail)
    /\ capital = initial_capital
    /\ position = 0
    /\ trades = <<>>
    /\ entry_price = None
    /\ portfolio_value = <<>>
    /\ i = 0
    /\ pc = "call"
    /\ report = None
    /\ error = ""
    /\ earlier = None
    /\ shared = FALSE
    /\ other = None
    /\ running = 1

NextVolume == Call \/ VolumeBar \/ VolumeLoopExit \/ CalculatePerformance

VolumeSpec == InitVolume /\ [][NextVolume]_vars

----------------------------------------------------------------------------
(* Two SimpleBacktester instances, each running one strategy call in a      *)
(* thread of its own over the same DataFrame (each call works on            *)
(* data.copy()).  The variables of the single run hold the instance whose   *)
(* thread is running, other holds the waiting one; the scheduler may switch *)
(* threads between any two steps.  The bars: HeadLen bars of close 2 and    *)
(* volume 5, then MaxTail bars as in the two-call runs; the first instance  *)
(* has a capital of 100 and the default windows, the second a capital of 2. *)

\* the instance whose thread is running, as a record
Me ==
    [strategy |-> strategy, short_window |-> short_window,
     long_window |-> long_window, initial_capital |-> initial_capital,
     capital |-> capital, position |-> position, trades |-> trades,
     entry_price |-> entry_price, portfolio_value |-> portfolio_value,
     i |-> i, pc |-> pc, report |-> report, error |-> error]

\* SimpleBacktester(init) with the arguments of its call chosen
NewInstance(strat, w, init) ==
    [strategy |-> strat, short_window |-> w[1], long_window |-> w[2],
     initial_capital |-> init, capital |-> init, position |-> 0,
     trades |-> <<>>, entry_price |-> None, portfolio_value |-> <<>>,
     i |-> 0, pc |-> "call", report |-> None, error |-> ""]

InitConc ==
    /\ \E tail \in RerunTails(MaxTail) : data = MkData(<<2, 0>>, HeadLen, tail)
    /\ \E s1, s2 \in {"golden", "volume"}, w1, w2 \in Windows :
          /\ w1 = <<MA_SHORT, MA_LONG>>
          /\ s2 = "volume" => w2 = <<MA_SHORT, MA_LONG>>
          /\ \E new \in {NewInstance(s1, w1, 100)} :
                /\ strategy = new.strategy
                /\ short_window = new.short_window
                /\ long_window = new.long_window
                /\ initial_capital = new.initial_capital
                /\ capital = new.capital
                /\ position = new.position
                /\ trades = new.trades
                /\ entry_price = new.entry_price
                /\ portfolio_value = new.portfolio_value
                /\ i = new.i
                /\ pc = new.pc
                /\ report = new.report
                /\ error = new.error
          /\ other = Some(NewInstance(s2, w2, 2))
    /\ earlier = None
    /\ shared = FALSE
    /\ running = 1

\* The scheduler suspends the running thread and resumes the waiting one.
Switch ==
    /\ other # None
    /\ other[1].pc \notin {"done", "raised"}
    /\ other' = Some(Me)
    /\ strategy' = other[1].strategy
    /\ short_window' = other[1].short_window
    /\ long_window' = other[1].long_window
    /\ initial_capital' = other[1].initial_capital
    /\ capital' = other[1].capital
    /\ position' = other[1].position
    /\ trades' = other[1].trades
    /\ entry_price' = other[1].entry_price
    /\ portfolio_value' = other[1].portfolio_value
    /\ i' = other[1].i
    /\ pc' = other[1].pc
    /\ report' = other[1].report
    /\ error' = other[1].error
    /\ running' = OtherId(running)
    /\ UNCHANGED <<data, earlier, shared>>

NextConc == Next \/ Switch

ConcSpec == InitConc /\ [][NextConc]_vars

----------------------------------------------------------------------------
(* _calculate_performance(df) as a function of the frame: the               *)
(* Portfolio_Value column is drawn from the curves of at most MaxCurveLen   *)
(* values in 1..MaxEquity, the Close column repeats it, the log is empty.   *)

Curves == UNION {[1..n -> 1..MaxEquity] : n \in 1..MaxCurveLen}

InitPerf ==
    /\ strategy = "golden"
    /\ short_window = MA_SHORT
    /\ long_window = MA_LONG
    /\ \E curve \in Curves :
          /\ data = [t \in 1..Len(curve) |-> [Close |-> curve[t], Volume |-> 1]]
          /\ portfolio_value = curve
          /\ initial_capital = curve[1]
          /\ i = Len(curve)
    /\ capital = initial_capital
    /\ position = 0
    /\ trades = <<>>
    /\ entry_price = None
    /\ pc = "perf"
    /\ report = None
    /\ error = ""
    /\ earlier = None
    /\ shared = FALSE
    /\ other = None
    /\ running = 1

PerfSpec == InitPerf /\ [][CalculatePerformance]_vars

----------------------------------------------------------------------------
(* TechnicalIndicators.calculate_rsi(data), a function of the Close column, *)
(* applied to the bar sequences of the input family.  The returned RSI      *)
(* column is kept in report.                                                *)

\* delta.where(delta > 0, 0), row t: delta = Close.diff() is NaN on the first
\* row, NaN > 0 is False, so the first row is 0
Gain(d, t) ==
    IF t = 1 THEN 0
    ELSE IF d[t].Close - d[t - 1].Close > 0 THEN d[t].Close - d[t - 1].Close
    ELSE 0

\* -delta.where(delta < 0, 0), row t
Loss(d, t) ==
    IF t = 1 THEN 0
    ELSE IF d[t].Close - d[t - 1].Close < 0 THEN d[t - 1].Close - d[t].Close
    ELSE 0

RECURSIVE GainSum(_, _, _)
\* sum of Gain over the rows lo..hi: the window of rolling(window=period)
GainSum(d, lo, hi) ==
    IF hi < lo THEN 0 ELSE Gain(d, hi) + GainSum(d, lo, hi - 1)

RECURSIVE LossSum(_, _, _)
\* sum of Loss over the rows lo..hi
LossSum(d, lo, hi) ==
    IF hi < lo THEN 0 ELSE Loss(d, hi) + LossSum(d, lo, hi - 1)

\* rs = gain / loss; RSI = 100 - (100 / (1 + rs)), row t.  The rolling means
\* are NaN before row period; their quotient is that of the window sums g
\* and l.  l = 0 < g: rs = inf and RSI = 100 - 0.  g = l = 0: rs = 0/0 = NaN
\* and RSI is NaN.  Otherwise RSI = 100 * g / (g + l).
RSI(d, t, period) ==
    IF t < period THEN NaN
    ELSE LET g == GainSum(d, t - period + 1, t)
             l == LossSum(d, t - period + 1, t)
         IN  IF l = 0
             THEN (IF g = 0 THEN NaN ELSE Some(<<100, 1>>))
             ELSE Some(<<100 * g, g + l>>)

InitRsi ==
    /\ strategy = "rsi"
    /\ \E trend \in Trends, k \in {0, HeadLen}, n \in 0..MaxTail :
          \E tail \in [1..n -> Noise \X {5}] :
              data = MkData(trend, k, tail)
    /\ short_window = MA_SHORT
    /\ long_window = MA_LONG
    /\ initial_capital = 100
    /\ capital = initial_capital
    /\ position = 0
    /\ trades = <<>>
    /\ entry_price = None
    /\ portfolio_value = <<>>
    /\ i = 0
    /\ pc = "call"
    /\ report = None
    /\ error = ""
    /\ earlier = None
    /\ shared = FALSE
    /\ other = None
    /\ running = 1

\* df = calculate_rsi(data): the RSI column of the returned frame
CalculateRsi ==
    /\ pc = "call"
    /\ strategy = "rsi"
    /\ report' = Some([t \in 1..Len(data) |-> RSI(data, t, RSI_PERIOD)])
    /\ pc' = "done"
    /\ UNCHANGED <<inputs, capital, position, trades, entry_price,
                   portfolio_value, i, error, earlier, shared,
                   other, running>>

RsiSpec == InitRsi /\ [][CalculateRsi]_vars

----------------------------------------------------------------------------
(* Vocabulary of the properties. *)

Bars == 1..Len(data)
Finished == pc = "done"
TheReport == report[1]
LastTrade == trades[Len(trades)]

\* transition[t] as the code computes it, for the windows of the run
Transition(t) == Signal_Change(data, t, short_window, long_window)

\* The trade as a change of cash: -cost for a BUY, +proceeds for a SELL.
CashDelta(trade) ==
    IF trade.action = "BUY" THEN 0 - trade.cost ELSE trade.proceeds

RECURSIVE SumDeltas(_, _)
\* sum of the cash deltas of the first m trades of the log
SumDeltas(log, m) ==
    IF m = 0 THEN 0 ELSE CashDelta(log[m]) + SumDeltas(log, m - 1)

Alternates(log) ==
    \A j \in 1..Len(log) :
        log[j].action = (IF j % 2 = 1 THEN "BUY" ELSE "SELL")

\* the loop is about to process bar i+1
AtBar == pc = "loop" /\ i < Len(data)

----------------------------------------------------------------------------
(* C1..C10 *)

\* C1: for every non-empty bar sequence and both strategies, when the run
\* returns the simulator is flat (position = 0) and final_value equals cash.
C1_FlatAtReturn ==
    (Finished /\ Len(data) > 0) =>
        /\ position = 0
        /\ TheReport.final_value = capital

\* C2: the trade log alternates BUY, SELL, ... starting with BUY after every
\* bar step, and the log of a finished run has even length.
C2_AlternatesAndEven ==
    /\ Alternates(trades)
    /\ Finished => Len(trades) % 2 = 0

\* C3: the reported final_value equals initial_capital plus the sum of the
\* cash deltas of all logged trades.
C3_FinalValueIsCashFlow ==
    (Finished /\ Len(data) > 0) =>
        TheReport.final_value = initial_capital + SumDeltas(trades, Len(trades))

\* C4: cash is never negative, position is a natural number, and the cost of
\* every BUY is at most the cash available when it was made.
C4_CashNonNegative ==
    /\ capital >= 0
    /\ position \in Nat
    /\ \A j \in 1..Len(trades) :
          trades[j].action = "BUY" =>
              trades[j].cost <= initial_capital + SumDeltas(trades, j - 1)

C4_Witness ==
    /\ position > 0
    /\ capital = 1
    /\ LastTrade.action = "BUY"
    /\ LastTrade.cost = initial_capital - 1

\* the entry condition of the running strategy holds on bar t
EntryAt(t) ==
    IF strategy = "golden"
    THEN GoldenBuySignal(data, t, short_window, long_window, position)
    ELSE VolumeBuySignal(data, t, position)

\* C5: an entry at close p with cash c buys floor(c / p) shares, sets
\* position to that count and takes shares * p from cash, leaving
\* 0 <= cash < p; when floor(c / p) = 0 nothing is logged, cash and
\* position are unchanged and no error is raised.
C5_EntrySizing ==
    [][(AtBar /\ EntryAt(i + 1)) =>
         LET p == data[i + 1].Close
             c == capital
         IN  IF c >= p
             THEN /\ position' >= 1
                  /\ position' * p <= c
                  /\ c < (position' + 1) * p
                  /\ capital' = c - position' * p
                  /\ 0 <= capital' /\ capital' < p
                  /\ Len(trades') = Len(trades) + 1
                  /\ trades'[Len(trades')].action = "BUY"
                  /\ trades'[Len(trades')].shares = position'
                  /\ trades'[Len(trades')].price = p
                  /\ trades'[Len(trades')].cost = position' * p
             ELSE /\ trades' = trades
                  /\ capital' = capital
                  /\ position' = 0
                  /\ pc' = "loop"
                  /\ error' = ""]_vars

\* an entry signal on bar i found too little cash for one share
C5_Witness ==
    /\ pc = "loop"
    /\ i >= 1
    /\ trades = <<>>
    /\ Transition(i) = Some(1)
    /\ strategy = "volume" => VolumeConfirmed(data, i)
    /\ capital < data[i].Close
    /\ position = 0

\* C6: in the volume strategy, on a bar where the simulator is long, the
\* whole position is sold iff the transition is -1 or close < 0.9 * entry
\* price; the reason is "Death Cross" whenever the transition is -1 and
\* "Stop Loss" otherwise; at most one SELL is logged for the bar.
C6_ExitRule ==
    [][(AtBar /\ strategy = "volume" /\ position > 0) =>
         LET t == i + 1
             close == data[t].Close
             death == Transition(t) = Some(-1)
             stop == close * 10 < LastTrade.price * 9
         IN  /\ LastTrade.action = "BUY"
             /\ (trades' # trades) <=> (death \/ stop)
             /\ (trades' # trades) =>
                   /\ trades' = Append(trades, trades'[Len(trades')])
                   /\ trades'[Len(trades')].action = "SELL"
                   /\ trades'[Len(trades')].date = t
                   /\ trades'[Len(trades')].shares = position
                   /\ trades'[Len(trades')].proceeds = position * close
                   /\ trades'[Len(trades')].reason =
                         (IF death THEN "Death Cross" ELSE "Stop Loss")
                   /\ position' = 0]_vars

\* a SELL on a bar where both the death cross and the stop loss hold
C6_Witness ==
    /\ strategy = "volume"
    /\ Len(trades) >= 2
    /\ LastTrade.action = "SELL"
    /\ LastTrade.reason = "Death Cross"
    /\ LastTrade.price * 10 < trades[Len(trades) - 1].price * 9

\* bar t passes the volume filter: Volume_MA is defined (20 bars) and
\* volume > 1.2 * mean of the last 20 volumes, the bar's own included
VolumeFilter(t) ==
    /\ t >= 20
    /\ 10 * 20 * data[t].Volume > 12 * ColSum(data, "Volume", t - 19, t)

\* C7: in the volume strategy a BUY occurs at bar t iff the simulator is
\* flat, transition[t] = +1, volume[t] > 1.2 * Volume_MA[t] and
\* floor(cash / close[t]) >= 1; so every BUY of the log sits on a bar with
\* both the golden cross and the volume condition.
C7_VolumeEntry ==
    /\ [][(AtBar /\ strategy = "volume") =>
            LET t == i + 1
                bought == /\ Len(trades') = Len(trades) + 1
                          /\ trades'[Len(trades')].action = "BUY"
                          /\ trades'[Len(trades')].date = t
            IN  bought <=> /\ position = 0
                           /\ Transition(t) = Some(1)
                           /\ VolumeFilter(t)
                           /\ capital >= data[t].Close]_vars
    /\ [](strategy = "volume" =>
            \A j \in 1..Len(trades) :
                trades[j].action = "BUY" =>
                    /\ Transition(trades[j].date) = Some(1)
                    /\ VolumeFilter(trades[j].date))

\* a golden cross on a bar that failed the volume filter was passed over,
\* and the first BUY came on a later golden cross with enough volume
C7_Witness ==
    /\ strategy = "volume"
    /\ Len(trades) >= 1
    /\ \E t \in 1..(trades[1].date - 1) :
          /\ Transition(t) = Some(1)
          /\ ~VolumeFilter(t)
          /\ initial_capital >= data[t].Close

\* both moving averages have a value on bar t
MAsDefined(t) == t >= short_window /\ t >= long_window

\* C8: a golden or death cross is reported, and a trade fired by it, only
\* on a bar t whose moving averages are defined at t and at t-1; never on
\* the first bar nor on the first bar on which the long average is defined
\* (stated of the bars the loop has processed).
C8_NoCrossAtFirstDefinedBar ==
    /\ \A t \in 1..i :
          Transition(t) \in {Some(1), Some(-1)} =>
              t > 1 /\ MAsDefined(t) /\ MAsDefined(t - 1)
    /\ \A j \in 1..Len(trades) :
          trades[j].action = "BUY" =>
              MAsDefined(trades[j].date) /\ MAsDefined(trades[j].date - 1)

StrictlyIncreasing ==
    \A t \in 1..(Len(data) - 1) : data[t].Close < data[t + 1].Close

\* C9: on n >= long_window bars of strictly increasing closes, with capital
\* for at least one share, the plain strategy logs exactly two trades, a
\* BUY at bar long_window for floor(initial_capital / close) shares and a
\* forced SELL at the last bar's close, and reports
\* final_value = initial_capital - shares * buy_close + shares * last_close.
C9_RisingSeries ==
    (/\ strategy = "golden"
     /\ short_window < long_window
     /\ Len(data) >= long_window
     /\ StrictlyIncreasing
     /\ initial_capital >= data[long_window].Close
     /\ pc \in {"done", "raised"}) =>
        LET buy_close == data[long_window].Close
            last_close == data[Len(data)].Close
            shares == CHOOSE n \in 1..initial_capital :
                          n * buy_close <= initial_capital
                          /\ initial_capital < (n + 1) * buy_close
        IN  /\ Len(trades) = 2
            /\ trades[1] = BuyTrade(long_window, buy_close, shares)
            /\ trades[2] = SellTrade(Len(data), last_close, shares)
            /\ pc = "done"
            /\ TheReport.final_value =
                  initial_capital - shares * buy_close + shares * last_close

\* C10: on a zero-length bar sequence both strategies return the empty dict
\* without raising, log no trade and leave cash at the initial capital.
C10_EmptyInput ==
    Len(data) = 0 =>
        /\ pc # "raised"
        /\ error = ""
        /\ trades = <<>>
        /\ capital = initial_capital
        /\ position = 0
        /\ Finished => report = Some(EmptyDict)
        /\ report # None => Finished

C10_Witness ==
    /\ Len(data) = 0
    /\ Finished
    /\ report = Some(EmptyDict)

----------------------------------------------------------------------------
(* C11..C20 *)

\* the call has ended, by a return or by an exception
Ended == pc \in {"done", "raised"}

\* the quotients n/d and m/e are the same number
RatEq(a, b) == a[1] * b[2] = b[1] * a[2]

\* C11: on a non-empty bar sequence with fewer bars than the long window,
\* both strategies end without raising, log no trade and record an equity
\* of initial_capital on every bar, with total_return, total_trades and
\* win_rate all 0.
C11_ShortData ==
    (Len(data) > 0 /\ Len(data) < long_window /\ Ended) =>
        /\ Finished
        /\ error = ""
        /\ trades = <<>>
        /\ Len(portfolio_value) = Len(data)
        /\ \A t \in Bars : portfolio_value[t] = initial_capital
        /\ RatEq(TheReport.total_return, <<0, 1>>)
        /\ TheReport.total_trades = 0
        /\ RatEq(TheReport.win_rate, <<0, 1>>)

\* C12: in both strategies every bar step records exactly one equity value,
\* in bar order, equal to cash + position * close of that bar with the cash
\* and position left by the bar's trade; nothing else adds to the curve, so
\* the curve of an ended run has one value per bar and is the reported one.
C12_EquityPerBar ==
    /\ [][AtBar =>
            /\ i' = i + 1
            /\ portfolio_value' =
                  Append(portfolio_value,
                         capital' + position' * data[i + 1].Close)]_vars
    /\ [][(~AtBar /\ pc # "call") => portfolio_value' = portfolio_value]_vars
    /\ [](pc # "call" => Len(portfolio_value) = i)
    /\ [](pc \in {"perf", "done", "raised"} => Len(portfolio_value) = Len(data))
    /\ []((Finished /\ Len(data) > 0) =>
              TheReport.portfolio_data = portfolio_value)

\* bar i carried a BUY and its equity counts the shares just bought
C12_Witness ==
    /\ pc = "loop"
    /\ i >= 1
    /\ Len(trades) >= 1
    /\ LastTrade.action = "BUY"
    /\ LastTrade.date = i
    /\ position > 0
    /\ capital > 0
    /\ portfolio_value[i] = capital + position * data[i].Close

\* the positions of the log holding a record of the given action
Positions(log, a) == {j \in 1..Len(log) : log[j].action = a}

\* the position of the k-th record of the given action
Nth(log, a, k) ==
    CHOOSE j \in Positions(log, a) :
        Cardinality({m \in Positions(log, a) : m <= j}) = k

\* completed round trips: every SELL closes the BUY before it
RoundTrips(log) == Cardinality(Positions(log, "SELL"))

\* round trips whose SELL proceeds exceed the cost of the BUY of the same rank
Wins(log) ==
    Cardinality({k \in 1..RoundTrips(log) :
        log[Nth(log, "SELL", k)].proceeds > log[Nth(log, "BUY", k)].cost})

\* C13: for the log of every run that returns a report (a volume-strategy
\* log ending with an unclosed BUY included), total_trades is the number of
\* completed round trips and win_rate is 100 * (number of k such that the
\* k-th SELL's proceeds exceed the k-th BUY's cost) / total_trades; win_rate
\* is 0 when no round trip was completed.
C13_WinRate ==
    (Finished /\ Len(data) > 0) =>
        /\ TheReport.trades = trades
        /\ TheReport.total_trades = RoundTrips(trades)
        /\ IF RoundTrips(trades) > 0
           THEN RatEq(TheReport.win_rate,
                      <<100 * Wins(trades), RoundTrips(trades)>>)
           ELSE RatEq(TheReport.win_rate, <<0, 1>>)

\* a report over a log that ends with an unclosed BUY, after one round trip
\* that broke even (proceeds equal to cost, so not a win)
C13_Witness ==
    /\ Finished
    /\ strategy = "volume"
    /\ Len(trades) = 3
    /\ LastTrade.action = "BUY"
    /\ trades[2].proceeds = trades[1].cost
    /\ TheReport.total_trades = 1
    /\ RatEq(TheReport.win_rate, <<0, 1>>)

\* C14: when the run has 1 or 2 bars (fewer than two per-bar returns) the
\* reported volatility is the number 0, not NaN, and the Sharpe ratio is 0.
C14_ShortReturnSeries ==
    (Finished /\ Len(data) \in {1, 2}) =>
        /\ TheReport.volatility = Some(0)
        /\ TheReport.sharpe_ratio = 0

\* C15: max_drawdown is 100 * the least over t of (equity[t] - M[t]) / M[t],
\* M[t] being the greatest equity of the bars up to t; so it is never
\* positive, it is 0 on a curve that never falls, and it is -50 on a curve
\* that rises to twice its first value and then falls to half of that peak.
C15_MaxDrawdown ==
    Finished =>
        LET pv == TheReport.portfolio_data
            dd == TheReport.max_drawdown
            T == 1..Len(pv)
            IsPeak(m, t) == /\ \E u \in 1..t : pv[u] = m
                            /\ \A u \in 1..t : pv[u] <= m
            M(t) == CHOOSE m \in 1..MaxEquity : IsPeak(m, t)
        IN  /\ dd[2] > 0
            /\ \A t \in T : dd[1] * M(t) <= 100 * (pv[t] - M(t)) * dd[2]
            /\ \E t \in T : dd[1] * M(t) = 100 * (pv[t] - M(t)) * dd[2]
            /\ dd[1] <= 0
            /\ (\A t \in T \ {1} : pv[t - 1] <= pv[t]) => dd[1] = 0
            /\ (\E p \in T :
                   /\ \A t \in 2..p : pv[t - 1] <= pv[t]
                   /\ \A t \in (p + 1)..Len(pv) : pv[t] <= pv[t - 1]
                   /\ pv[p] = 2 * pv[1]
                   /\ 2 * pv[Len(pv)] = pv[p])
               => RatEq(dd, <<-50, 1>>)

\* the report of a curve that doubled and then halved
C15_Witness ==
    /\ Finished
    /\ portfolio_value = <<2, 3, 4, 2>>
    /\ RatEq(TheReport.max_drawdown, <<-50, 1>>)

\* no close of the rows t-RSI_PERIOD+1..t is below the close before it: the
\* average loss of the window ending at t is 0
NoLossInWindow(t) ==
    \A u \in (t - RSI_PERIOD + 1)..t :
        u > 1 => data[u].Close >= data[u - 1].Close

\* C16: calculate_rsi reports RSI = 100 on every bar whose full trailing
\* window has an average loss of 0, also when the average gain is 0 too
\* (flat closes): the division by zero never leaves RSI undefined.
C16_RsiNoLoss ==
    (Finished /\ strategy = "rsi") =>
        \A t \in RSI_PERIOD..Len(data) :
            NoLossInWindow(t) =>
                /\ TheReport[t] # NaN
                /\ RatEq(TheReport[t][1], <<100, 1>>)

ReportFields ==
    {"initial_capital", "final_value", "total_return", "buy_hold_return",
     "excess_return", "volatility", "sharpe_ratio", "max_drawdown",
     "total_trades", "win_rate", "trades", "portfolio_data"}

\* C17: for every non-empty bar sequence and every window pair, the defaults
\* 5 and 20 or not, golden_cross_strategy returns without raising a report
\* that holds every field of the performance report.
C17_ReportForEveryWindow ==
    (strategy = "golden" /\ Len(data) > 0 /\ Ended) =>
        /\ Finished
        /\ error = ""
        /\ DOMAIN TheReport = ReportFields

\* C18: every strategy run starts from cash = initial_capital, position 0
\* and an empty log whatever the earlier run on the instance left; a second
\* run with the arguments of the first ends as the first (a fresh instance)
\* did, with the same report; and the earlier report, its trade log
\* included, is never changed by the later run.
C18_RunsAreIndependent ==
    /\ []((pc = "loop" /\ i = 0) =>
             /\ capital = initial_capital
             /\ position = 0
             /\ trades = <<>>
             /\ entry_price = None
             /\ portfolio_value = <<>>)
    /\ []((Ended /\ earlier # None) =>
             ((/\ earlier[1].strategy = strategy
               /\ earlier[1].short_window = short_window
               /\ earlier[1].long_window = long_window)
              => (pc = earlier[1].pc /\ report = earlier[1].report)))
    /\ [][earlier # None => earlier' = earlier]_vars

\* a volume run that ended holding shares was followed by a plain run that
\* logged its own trades; the earlier report still shows the first log
C18_Witness ==
    /\ Finished
    /\ earlier # None
    /\ earlier[1].strategy = "volume"
    /\ earlier[1].pc = "done"
    /\ Len(earlier[1].report[1].trades) = 3
    /\ strategy = "golden"
    /\ Len(trades) = 4
    /\ TheReport.trades = trades

\* the bars of the records of the given action
TradeBars(log, a) == {log[j].date : j \in Positions(log, a)}

\* the cash held when bar t begins
CashBefore(t) ==
    initial_capital
      + SumDeltas(trades, Cardinality({j \in 1..Len(trades) : trades[j].date < t}))

\* the loop has processed every bar (the forced sale may follow)
LoopOver == pc \in {"perf", "done", "raised"}

\* C19: in a run of the plain strategy in which every golden cross found
\* cash for at least one share, the bars with a BUY are exactly the bars of
\* detect_golden_cross and the bars with an in-loop SELL exactly those of
\* detect_death_cross for the same windows; the only further record is one
\* forced SELL at the last bar when the last crossing was golden; so 2
\* golden and 2 death crosses give exactly 4 trades, two round trips.
C19_TradesAreCrossings ==
    (strategy = "golden" /\ LoopOver) =>
        \A golden \in {DetectGoldenCross(data, short_window, long_window)},
           death \in {DetectDeathCross(data, short_window, long_window)} :
            (\A t \in golden : CashBefore(t) >= data[t].Close) =>
                LET crossings == golden \cup death
                    forced == crossings # {} /\ Max(crossings) \in golden
                    inLoop == IF forced THEN SubSeq(trades, 1, Len(trades) - 1)
                              ELSE trades
                IN  /\ TradeBars(trades, "BUY") = golden
                    /\ TradeBars(inLoop, "SELL") = death
                    /\ Len(inLoop) = Cardinality(golden) + Cardinality(death)
                    /\ forced =>
                          /\ Len(trades) = Len(inLoop) + 1
                          /\ LastTrade.action = "SELL"
                          /\ LastTrade.date = Len(data)
                    /\ (Cardinality(golden) = 2 /\ Cardinality(death) = 2) =>
                          /\ Len(trades) = 4
                          /\ Alternates(trades)
                          /\ RoundTrips(trades) = 2

\* a run over a series with two golden and two death crosses has ended
C19_Witness ==
    /\ strategy = "golden"
    /\ Ended
    /\ Cardinality(DetectGoldenCross(data, short_window, long_window)) = 2
    /\ Cardinality(DetectDeathCross(data, short_window, long_window)) = 2
    /\ Len(trades) = 4
    /\ LastTrade.action = "SELL"

\* (C20 as stated) in the log of any run of either strategy the timestamp
\* of every trade is strictly later than that of the trade before it.
C20_StrictlyLater ==
    \A j \in 2..Len(trades) : trades[j].date > trades[j - 1].date

\* C20: trades are appended in chronological order and each bar step
\* appends at most one record, dated with its bar: the timestamp of every
\* trade is later than or equal to that of the trade before it, and equal
\* only when the forced final SELL of the plain strategy follows a BUY made
\* on the last bar.
C20_ChronologicalOrder ==
    /\ [](\A j \in 2..Len(trades) :
             /\ trades[j].date >= trades[j - 1].date
             /\ trades[j].date = trades[j - 1].date =>
                   /\ strategy = "golden"
                   /\ LoopOver
                   /\ j = Len(trades)
                   /\ trades[j].date = Len(data)
                   /\ trades[j - 1].action = "BUY"
                   /\ trades[j].action = "SELL")
    /\ [][AtBar =>
            \/ trades' = trades
            \/ /\ Len(trades') = Len(trades) + 1
               /\ SubSeq(trades', 1, Len(trades)) = trades
               /\ trades'[Len(trades')].date = i + 1]_vars

\* the last bar carried a BUY and the forced SELL after the loop
C20_Witness ==
    /\ strategy = "golden"
    /\ LoopOver
    /\ Len(trades) >= 2
    /\ LastTrade.action = "SELL"
    /\ trades[Len(trades) - 1].action = "BUY"
    /\ LastTrade.date = trades[Len(trades) - 1].date

(* C21..C24 *)

\* instance k as a record, whichever thread is running
Inst(k) == IF running = k THEN Me ELSE other[1]

\* The run alone, as a function of its arguments: the portfolio after one
\* more bar t of the loop (lines 52-89, 139-195).  (The singleton sets only
\* name the values of the conditions.)
SoloBar(strat, d, s, l, st, t) ==
    CHOOSE r \in
        {LET price == d[t].Close
             shares == SharesToBuy(st.capital, price)
             fill == buy /\ shares > 0
             sell == ~buy /\ st.position > 0 /\ reason # ""
             cap2 == IF fill THEN CashAfterBuy(st.capital, shares, price)
                     ELSE IF sell THEN CashAfterSell(st.capital, st.position, price)
                     ELSE st.capital
             pos2 == IF fill THEN shares ELSE IF sell THEN 0 ELSE st.position
         IN  [capital |-> cap2,
              position |-> pos2,
              trades |->
                 IF fill THEN Append(st.trades, BuyTrade(t, price, shares))
                 ELSE IF sell
                      THEN Append(st.trades,
                                  IF strat = "golden"
                                  THEN SellTrade(t, price, st.position)
                                  ELSE SellTradeReason(t, price, st.position, reason))
                 ELSE st.trades,
              entry_price |->
                 IF strat = "golden" THEN None
                 ELSE EntryPriceAfter(fill, sell, price, st.entry_price),
              portfolio_value |->
                 Append(st.portfolio_value, PortfolioValue(cap2, pos2, price))] :
           buy \in {IF strat = "golden"
                    THEN GoldenBuySignal(d, t, s, l, st.position)
                    ELSE VolumeBuySignal(d, t, st.position)},
           reason \in {IF strat = "golden"
                       THEN (IF GoldenSellSignal(d, t, s, l, st.position)
                             THEN "Death Cross" ELSE "")
                       ELSE SellReason(d, t, st.entry_price, d[t].Close)}} : TRUE

RECURSIVE SoloLoop(_, _, _, _, _, _)
\* the portfolio of the run alone after the first m bars
SoloLoop(strat, d, s, l, init, m) ==
    IF m = 0
    THEN [capital |-> init, position |-> 0, trades |-> <<>>,
          entry_price |-> None, portfolio_value |-> <<>>]
    ELSE CHOOSE r \in {SoloBar(strat, d, s, l, st, m) :
                         st \in {SoloLoop(strat, d, s, l, init, m - 1)}} : TRUE

\* the log of the run alone: the loop over every bar, then the final sell of
\* the plain strategy (lines 91-105)
SoloTrades(strat, d, s, l, init) ==
    CHOOSE log \in
        {IF strat = "golden" /\ st.position > 0
         THEN Append(st.trades,
                     SellTrade(Len(d), d[Len(d)].Close, st.position))
         ELSE st.trades : st \in {SoloLoop(strat, d, s, l, init, Len(d))}} : TRUE

\* what the run alone returns or raises
SoloOutcome(strat, d, s, l, init) ==
    Performance(d, s, l, init, SoloTrades(strat, d, s, l, init),
                SoloLoop(strat, d, s, l, init, Len(d)).portfolio_value)

\* C21: with two instances running concurrently, for every interleaving of
\* their steps, a step of one run leaves the cash, position, entry price,
\* trade log and every other part of the waiting run as they were, a switch
\* of threads changes neither, and each run ends (the step that returns or
\* raises) with the trades and the report or exception it has when run
\* alone.
C21_ConcurrentRunsIsolated ==
    /\ [][running' = running => other' = other]_vars
    /\ [][running' # running =>
            Inst(1)' = Inst(1) /\ Inst(2)' = Inst(2)]_vars
    /\ [][(running' = running /\ pc = "perf") =>
            \E alone \in {SoloOutcome(strategy, data, short_window,
                                      long_window, initial_capital)} :
                /\ trades' = SoloTrades(strategy, data, short_window,
                                        long_window, initial_capital)
                /\ pc' = alone.pc
                /\ pc' \in {"done", "raised"}
                /\ error' = alone.error
                /\ report' = alone.report]_vars

\* the first run has returned its report with trades in it while the second,
\* started before that, is in its loop holding shares
C21_Witness ==
    /\ other # None
    /\ Inst(1).pc = "done"
    /\ Len(Inst(1).trades) >= 2
    /\ Inst(2).pc = "loop"
    /\ Inst(2).i > 0
    /\ Inst(2).i < Len(data)
    /\ Inst(2).position > 0
    /\ Inst(1).strategy # Inst(2).strategy

\* the step appends one record of the given action to the log
Logs(a) ==
    /\ Len(trades') = Len(trades) + 1
    /\ trades'[Len(trades')].action = a

\* C22: in every state of a volume-strategy run entry_price is None when
\* position = 0 and is the price of the last logged BUY when position > 0;
\* it gets a value only in a step that logs a BUY (the bar's close) and
\* loses it only in a step that logs a SELL.
C22_EntryPrice ==
    /\ [](strategy = "volume" =>
            /\ position = 0 => entry_price = None
            /\ position > 0 =>
                  /\ Len(trades) >= 1
                  /\ LastTrade.action = "BUY"
                  /\ entry_price = Some(LastTrade.price))
    /\ [][(strategy = "volume" /\ entry_price' # entry_price) =>
            IF entry_price' # None
            THEN /\ AtBar
                 /\ Logs("BUY")
                 /\ entry_price' = Some(data[i + 1].Close)
            ELSE AtBar /\ Logs("SELL")]_vars

\* holding the shares of a second BUY, made at another price than the first
C22_Witness ==
    /\ strategy = "volume"
    /\ position > 0
    /\ Len(trades) = 3
    /\ entry_price = Some(trades[3].price)
    /\ trades[3].price # trades[1].price

\* the step is the forced sale after the loop of the plain strategy
ForcedSale == pc = "loop" /\ strategy = "golden" /\ i = Len(data) /\ position > 0

\* C23: a fill never changes the portfolio value: over every bar step and
\* over the forced final sale, cash + position * close of the bar is the
\* same before and after; every SELL sells exactly the shares of the BUY
\* before it; so the equity of a bar differs from that of the bar before
\* only by (position held when the bar begins) * (change of the close).
C23_FillsPreserveValue ==
    /\ [][AtBar =>
            capital' + position' * data[i + 1].Close
               = capital + position * data[i + 1].Close]_vars
    /\ [][ForcedSale =>
            /\ Logs("SELL")
            /\ capital' + position' * data[Len(data)].Close
                  = capital + position * data[Len(data)].Close]_vars
    /\ [](\A j \in 1..Len(trades) :
             trades[j].action = "SELL" =>
                 /\ j > 1
                 /\ trades[j - 1].action = "BUY"
                 /\ trades[j].shares = trades[j - 1].shares)
    /\ [][(AtBar /\ i >= 1) =>
            portfolio_value'[i + 1] - portfolio_value[i]
               = position * (data[i + 1].Close - data[i].Close)]_vars

\* bar i carried a SELL at another price than its BUY, and the equity moved
\* from the bar before by the price change on the shares held
C23_Witness ==
    /\ pc = "loop"
    /\ i >= 2
    /\ Len(trades) >= 2
    /\ LastTrade.action = "SELL"
    /\ LastTrade.date = i
    /\ LastTrade.price # trades[Len(trades) - 1].price
    /\ position = 0
    /\ portfolio_value[i] = capital
    /\ portfolio_value[i] - portfolio_value[i - 1]
          = LastTrade.shares * (data[i].Close - data[i - 1].Close)
    /\ portfolio_value[i] # portfolio_value[i - 1]

\* the volume is the same positive number on every bar
ConstantVolume ==
    \A t \in Bars : data[t].Volume = data[1].Volume /\ data[t].Volume > 0

\* C24: in the volume strategy the 20-bar average volume a bar is compared
\* with includes the bar itself and has no value on the first 19 bars: every
\* BUY sits on bar index 19 or later (bar 20 here) and passed the filter
\* computed so; on a bar sequence whose volume is the same positive value on
\* every bar the run logs no trade and the equity is initial_capital on
\* every bar, whatever the prices do.
C24_VolumeAverage ==
    /\ \A j \in 1..Len(trades) :
          trades[j].action = "BUY" =>
              /\ trades[j].date >= 20
              /\ VolumeFilter(trades[j].date)
    /\ ConstantVolume =>
          /\ trades = <<>>
          /\ position = 0
          /\ \A t \in 1..Len(portfolio_value) :
                portfolio_value[t] = initial_capital

\* a run over bars of constant volume has returned without a trade although
\* a golden cross came on a bar with a defined average and cash for a share
C24_Witness ==
    /\ Finished
    /\ Len(data) >= 20
    /\ ConstantVolume
    /\ trades = <<>>
    /\ \E t \in 20..Len(data) :
          /\ Transition(t) = Some(1)
          /\ initial_capital >= data[t].Close
    /\ \E t \in 2..Len(data) : data[t].Close # data[t - 1].Close

====
